---- MODULE Spec2Model ----
(***************************************************************************)
(* State-machine model of src/src/App.jsx (PDF -> image converter).        *)
(* The React state of App, the asynchronous handlers handleFileChange,     *)
(* startConversion and downloadAll, and the controls the render function   *)
(* shows in each state.  Every await of a handler is a point where other   *)
(* events may run; the code between two awaits is one atomic action.       *)
(* The component is modelled after the four libraries are loaded           *)
(* (isReady = true).                                                       *)
(***************************************************************************)
EXTENDS Integers, Sequences, FiniteSets, TLC

VARIABLES file, pdfDoc, status, progress, convertedImages, errorMsg, settings,
          parsing, pc, i, totalPages, images, runDoc, runSettings,
          progressLog, saved

vars == <<file, pdfDoc, status, progress, convertedImages, errorMsg, settings,
          parsing, pc, i, totalPages, images, runDoc, runSettings,
          progressLog, saved>>

uiVars == <<file, pdfDoc, status, progress, convertedImages, errorMsg, settings>>
runVars == <<pc, i, totalPages, images, runDoc, runSettings, progressLog>>

\* ---------------------------------------------------------------- bounds
\* largest page count of a document offered to the file picker
MaxPages == 3
\* largest number of handleFileChange parses awaiting their result at once
MaxParsing == 2
\* largest intrinsic page width and height (in points) of the planner inputs
MaxDim == 4
\* largest width limit of the planner inputs
MaxLimit == 8
\* largest number of pieces of a file name of the naming inputs
MaxNameLen == 3

\* ------------------------------------------------------------ input sets
PdfType == "application/pdf"

\* a File object: name (as a sequence of string pieces), MIME type, and the
\* page count its bytes parse to (0: the bytes do not parse)
\* pageWidth, pageHeight: the intrinsic size of its pages, in points
GoodFiles == {[name |-> <<"doc", ToString(n), ".pdf">>, type |-> PdfType, numPages |-> n,
               pageWidth |-> 612, pageHeight |-> 792] : n \in 1..MaxPages}
CorruptFile == [name |-> <<"broken", ".pdf">>, type |-> PdfType, numPages |-> 0,
                pageWidth |-> 0, pageHeight |-> 0]
TextFile == [name |-> <<"notes", ".txt">>, type |-> "text/plain", numPages |-> 0,
             pageWidth |-> 0, pageHeight |-> 0]
Files == GoodFiles \cup {CorruptFile, TextFile}
PdfFiles == {f \in Files : f.type = PdfType}

\* null, for file and for pdfDoc
NoFile == [name |-> <<>>, type |-> "", numPages |-> 0, pageWidth |-> 0, pageHeight |-> 0]
NoDoc == [src |-> <<>>, numPages |-> 0, pageWidth |-> 0, pageHeight |-> 0]

\* the document pdf.js parses from a file
DocOf(f) == [src |-> f.name, numPages |-> f.numPages,
             pageWidth |-> f.pageWidth, pageHeight |-> f.pageHeight]

Formats == {"png", "jpeg"}

\* numbers that are not integers (scale, quality, viewport sizes) are exact
\* fractions n/d with d > 0
Frac(n, d) == [n |-> n, d |-> d]
FracMul(a, b) == Frac(a.n * b.n, a.d * b.d)
FracDiv(a, b) == Frac(a.n * b.d, a.d * b.n)
FracGt(a, b) == a.n * b.d > b.n * a.d
FracEq(a, b) == a.n * b.d = b.n * a.d

\* the <option> values of the scale select: 1, 1.5, 2, 3, 4
Scales == {Frac(1, 1), Frac(3, 2), Frac(2, 1), Frac(3, 1), Frac(4, 1)}
\* values of the quality range input (0.1 .. 1.0 in steps of 0.1) used as inputs
Qualities == {Frac(5, 10), Frac(9, 10)}
\* values typed into the width-limit input used as inputs
WidthLimits == {0, 1000}

\* useState({ format: 'png', quality: 0.9, scale: 2, maxPageWidth: 0 })
DefaultSettings ==
  [format |-> "png", quality |-> Frac(9, 10), scale |-> Frac(2, 1), maxPageWidth |-> 0]
\* err.message of a rejected getPage / render, or of a throwing toDataURL
Causes == {"getPage failed", "render failed", "encode failed"}

\* ------------------------------------------------------- pure functions
\* Math.round(x) for x = num/den >= 0: floor(x + 1/2)
MathRound(num, den) == (2 * num + den) \div (2 * den)

ProgressOf_prev(idx, total) == MathRound((idx - 1) * 100, total)
ProgressOf_remaining(idx, total) == MathRound((total - idx) * 100, total)
ProgressOf_floor(idx, total) == (idx * 100) \div total
\* Math.round((i / totalPages) * 100)
ProgressOf(idx, total) == MathRound(idx * 100, total)

\* settings.format === 'png' ? 'image/png' : 'image/jpeg'
MimeType(fmt) == IF fmt = "png" THEN "image/png" ELSE "image/jpeg"

\* page.getViewport({ scale }): the page's intrinsic size times scale
GetViewport(doc, scale) ==
  [scale |-> scale,
   width |-> FracMul(Frac(doc.pageWidth, 1), scale),
   height |-> FracMul(Frac(doc.pageHeight, 1), scale)]

\* settings.maxPageWidth > 0 && viewport.width > settings.maxPageWidth
ExceedsLimit(doc, s) ==
  s.maxPageWidth > 0 /\ FracGt(GetViewport(doc, s.scale).width, Frac(s.maxPageWidth, 1))

PlanViewport_noLimit(doc, s) == GetViewport(doc, s.scale)
\* the viewport a page is rendered with: rescaled by
\* scaleRatio = maxPageWidth / viewport.width when the width limit is exceeded
PlanViewport(doc, s) ==
  IF ExceedsLimit(doc, s)
  THEN LET scaleRatio == FracDiv(Frac(s.maxPageWidth, 1), GetViewport(doc, s.scale).width)
       IN GetViewport(doc, FracMul(s.scale, scaleRatio))
  ELSE GetViewport(doc, s.scale)

\* the products are computed in floating point: after the rescale they can
\* miss the exact value by a rounding error (-1: just below, 0: exact,
\* 1: just above); without the rescale they are exact for these inputs
FloatErrs(doc, s) == IF ExceedsLimit(doc, s) THEN {-1, 0, 1} ELSE {0}

\* canvas.width = x: the attribute is an unsigned long, the number assigned
\* to it is truncated
ToUnsignedLong(x, err) ==
  IF x.n % x.d = 0 /\ err < 0 THEN (x.n \div x.d) - 1 ELSE x.n \div x.d

\* the canvas of a page: canvas.height = viewport.height; canvas.width =
\* viewport.width; scale is the scale of the viewport rendered into it
Canvas(viewport, errW, errH) ==
  [width |-> ToUnsignedLong(viewport.width, errW),
   height |-> ToUnsignedLong(viewport.height, errH),
   scale |-> viewport.scale]

\* canvas.toDataURL(mimeType, settings.quality) of the canvas page idx of doc
\* was rendered to
DataUrl(canvas, doc, idx, s) ==
  [mime |-> MimeType(s.format), quality |-> s.quality, src |-> doc.src, page |-> idx,
   width |-> canvas.width, height |-> canvas.height, scale |-> canvas.scale]

PageResult_const(idx, url, canvas) ==
  [page |-> 1, dataUrl |-> url, width |-> canvas.width, height |-> canvas.height]
\* the object pushed to images
PageResult(idx, url, canvas) ==
  [page |-> idx, dataUrl |-> url, width |-> canvas.width, height |-> canvas.height]

\* `page-${p}.${fmt}` as string pieces
PageFileName(p, fmt) == <<"page-", ToString(p), ".", fmt>>

\* s.replace(piece, ''): removes the first occurrence only
RECURSIVE ReplaceFirst(_, _)
ReplaceFirst(s, piece) ==
  IF s = <<>> THEN <<>>
  ELSE IF Head(s) = piece THEN Tail(s)
  ELSE <<Head(s)>> \o ReplaceFirst(Tail(s), piece)

\* `${file.name.replace('.pdf', '')}-images.zip`
ArchiveName(f) == ReplaceFirst(f.name, ".pdf") \o <<"-images.zip">>

\* folder.file(name, data): an entry of the same name is replaced
ZipFile(entries, name, data) ==
  {e \in entries : e.name # name} \cup {[name |-> name, data |-> data]}

\* convertedImages.forEach(img => folder.file(`page-${img.page}.${fmt}`, ...))
\* inside zip.folder("images")
RECURSIVE ZipEntries(_, _)
ZipEntries(imgs, fmt) ==
  IF imgs = <<>> THEN {}
  ELSE LET n == Len(imgs)
           img == imgs[n]
       IN ZipFile(ZipEntries(SubSeq(imgs, 1, n - 1), fmt),
                  <<"images/">> \o PageFileName(img.page, fmt), img.dataUrl)

IsSingle_atLeast(imgs) == Len(imgs) >= 1
\* convertedImages.length === 1
IsSingle(imgs) == Len(imgs) = 1

\* error messages, as string pieces
NoError == <<>>
InvalidFileMsg == <<"invalid PDF file">>
ParseFailedMsg == <<"cannot parse PDF">>
ConversionErrorMsg(cause) == <<"conversion error: ", cause>>

\* saved is the call of window.saveAs made by the step that led to the
\* current state; NoSave when that step made none
NoSave == [via |-> "none", form |-> "none", name |-> <<>>, entries |-> {}]

\* number of parses in flight
RECURSIVE SumOver(_, _)
SumOver(f, S) ==
  IF S = {} THEN 0
  ELSE LET x == CHOOSE y \in S : TRUE IN f[x] + SumOver(f, S \ {x})
ParsingCount == SumOver(parsing, PdfFiles)

\* ----------------------------------------------------- rendered controls
\* {!file ? <upload area> : ...}
UploadVisible == file = NoFile
StartVisible_always == file # NoFile
StartVisible_notBusy == file # NoFile /\ status # "processing"
\* {status === 'idle' && <Button onClick={startConversion}>}
StartVisible == file # NoFile /\ status = "idle"
\* {status === 'idle' && <Button onClick={() => setFile(null)}>}
RemoveVisible == file # NoFile /\ status = "idle"
\* {status === 'done' && (... reset, download all, per-page download ...)}
ResultsVisible == file # NoFile /\ status = "done"

\* ----------------------------------------------------------------- Init
Init ==
  /\ file = NoFile
  /\ pdfDoc = NoDoc
  /\ status = "idle"
  /\ progress = 0
  /\ convertedImages = <<>>
  /\ errorMsg = NoError
  /\ settings = DefaultSettings
  /\ parsing = [f \in PdfFiles |-> 0]
  /\ pc = "none"
  /\ i = 0
  /\ totalPages = 0
  /\ images = <<>>
  /\ runDoc = NoDoc
  /\ runSettings = DefaultSettings
  /\ progressLog = <<>>
  /\ saved = NoSave

\* ------------------------------------------------------ handleFileChange
HandleFileChange_setsFile(f) ==
  /\ UploadVisible
  /\ IF f.type = PdfType
     THEN /\ ParsingCount < MaxParsing
          /\ file' = f
          /\ convertedImages' = <<>>
          /\ status' = "idle"
          /\ errorMsg' = NoError
          /\ progress' = 0
          /\ parsing' = [parsing EXCEPT ![f] = @ + 1]
          /\ UNCHANGED <<pdfDoc, settings>>
     ELSE /\ file' = f
          /\ errorMsg' = InvalidFileMsg
          /\ UNCHANGED <<pdfDoc, status, progress, convertedImages, settings, parsing>>
  /\ saved' = NoSave
  /\ UNCHANGED <<runVars>>
\* the synchronous part, up to the first await
HandleFileChange(f) ==
  /\ UploadVisible
  /\ IF f.type = PdfType
     THEN /\ ParsingCount < MaxParsing
          /\ file' = f
          /\ convertedImages' = <<>>
          /\ status' = "idle"
          /\ errorMsg' = NoError
          /\ progress' = 0
          /\ parsing' = [parsing EXCEPT ![f] = @ + 1]
          /\ UNCHANGED <<pdfDoc, settings>>
     ELSE /\ errorMsg' = InvalidFileMsg
          /\ UNCHANGED <<file, pdfDoc, status, progress, convertedImages, settings, parsing>>
  /\ saved' = NoSave
  /\ UNCHANGED <<runVars>>

\* loadingTask.promise resolves: setPdfDoc(pdf)
ParseResolve(f) ==
  /\ parsing[f] > 0
  /\ f.numPages > 0
  /\ pdfDoc' = DocOf(f)
  /\ parsing' = [parsing EXCEPT ![f] = @ - 1]
  /\ saved' = NoSave
  /\ UNCHANGED <<file, status, progress, convertedImages, errorMsg, settings, runVars>>

\* arrayBuffer() or getDocument rejects: the catch block
ParseReject(f) ==
  /\ parsing[f] > 0
  /\ f.numPages = 0
  /\ errorMsg' = ParseFailedMsg
  /\ parsing' = [parsing EXCEPT ![f] = @ - 1]
  /\ saved' = NoSave
  /\ UNCHANGED <<file, pdfDoc, status, progress, convertedImages, settings, runVars>>

\* ------------------------------------------------------------- controls
RemoveFile ==
  /\ RemoveVisible
  /\ file' = NoFile
  /\ saved' = NoSave
  /\ UNCHANGED <<pdfDoc, status, progress, convertedImages, errorMsg, settings,
                 parsing, runVars>>

ResetButton_keepImages ==
  /\ ResultsVisible
  /\ status' = "idle"
  /\ saved' = NoSave
  /\ UNCHANGED <<file, pdfDoc, progress, convertedImages, errorMsg, settings,
                 parsing, runVars>>
\* onClick={() => { setStatus('idle'); setConvertedImages([]); }}
ResetButton ==
  /\ ResultsVisible
  /\ status' = "idle"
  /\ convertedImages' = <<>>
  /\ saved' = NoSave
  /\ UNCHANGED <<file, pdfDoc, progress, errorMsg, settings, parsing, runVars>>

SetFormat_shared(fmt) ==
  /\ settings' = [settings EXCEPT !.format = fmt]
  /\ runSettings' = [settings EXCEPT !.format = fmt]
  /\ saved' = NoSave
  /\ UNCHANGED <<file, pdfDoc, status, progress, convertedImages, errorMsg,
                 parsing, pc, i, totalPages, images, runDoc, progressLog>>
\* onClick={() => setSettings({ ...settings, format: fmt })}
SetFormat(fmt) ==
  /\ settings' = [settings EXCEPT !.format = fmt]
  /\ saved' = NoSave
  /\ UNCHANGED <<file, pdfDoc, status, progress, convertedImages, errorMsg,
                 parsing, runVars>>

\* onChange={(e) => setSettings({ ...settings, quality: parseFloat(e.target.value) })}
SetQuality(q) ==
  /\ settings' = [settings EXCEPT !.quality = q]
  /\ saved' = NoSave
  /\ UNCHANGED <<file, pdfDoc, status, progress, convertedImages, errorMsg,
                 parsing, runVars>>

\* onChange={(e) => setSettings({ ...settings, scale: parseFloat(e.target.value) })}
SetScale(sc) ==
  /\ settings' = [settings EXCEPT !.scale = sc]
  /\ saved' = NoSave
  /\ UNCHANGED <<file, pdfDoc, status, progress, convertedImages, errorMsg,
                 parsing, runVars>>

\* onChange={(e) => setSettings({...settings, maxPageWidth: parseInt(e.target.value) || 0})}
SetMaxPageWidth(w) ==
  /\ settings' = [settings EXCEPT !.maxPageWidth = w]
  /\ saved' = NoSave
  /\ UNCHANGED <<file, pdfDoc, status, progress, convertedImages, errorMsg,
                 parsing, runVars>>

\* ------------------------------------------------------- startConversion
\* the catch block
Catch_publish(cause) ==
  /\ errorMsg' = ConversionErrorMsg(cause)
  /\ status' = "error"
  /\ convertedImages' = images
  /\ pc' = "finished"
  /\ saved' = NoSave
  /\ UNCHANGED <<file, pdfDoc, progress, settings, parsing,
                 i, totalPages, images, runDoc, runSettings, progressLog>>
Catch(cause) ==
  /\ errorMsg' = ConversionErrorMsg(cause)
  /\ status' = "error"
  /\ pc' = "finished"
  /\ saved' = NoSave
  /\ UNCHANGED <<file, pdfDoc, progress, convertedImages, settings, parsing,
                 i, totalPages, images, runDoc, runSettings, progressLog>>

\* after the loop: setConvertedImages(images); setStatus('done')
Finish ==
  /\ convertedImages' = images
  /\ status' = "done"
  /\ pc' = "finished"

\* the click on the start button, up to the first await
StartConversion ==
  /\ StartVisible
  /\ IF pdfDoc = NoDoc
     THEN /\ saved' = NoSave
          /\ UNCHANGED <<uiVars, parsing, runVars>>
     ELSE /\ progress' = 0
          /\ images' = <<>>
          /\ totalPages' = pdfDoc.numPages
          /\ runDoc' = pdfDoc
          /\ runSettings' = settings
          /\ progressLog' = <<>>
          /\ i' = 1
          /\ IF 1 <= pdfDoc.numPages
             THEN /\ status' = "processing"
                  /\ convertedImages' = <<>>
                  /\ pc' = "getPage"
             ELSE Finish
          /\ saved' = NoSave
  /\ UNCHANGED <<file, pdfDoc, errorMsg, settings, parsing>>

\* await pdfDoc.getPage(i) resolves: viewport, canvas, page.render(...) called
\* (the canvas is put together in RenderResolve, where it is used)
GetPageResolve ==
  /\ pc = "getPage"
  /\ pc' = "render"
  /\ saved' = NoSave
  /\ UNCHANGED <<uiVars, parsing, i, totalPages, images, runDoc, runSettings,
                 progressLog>>

GetPageReject ==
  /\ pc = "getPage"
  /\ Catch("getPage failed")

RenderResolve_liveSettings ==
  /\ pc = "render"
  /\ \E errW, errH \in FloatErrs(runDoc, settings) :
       LET canvas == Canvas(PlanViewport(runDoc, settings), errW, errH)
       IN images' = Append(images,
                           PageResult(i, DataUrl(canvas, runDoc, i, settings), canvas))
  /\ progress' = ProgressOf(i, totalPages)
  /\ progressLog' = Append(progressLog, ProgressOf(i, totalPages))
  /\ pc' = "raf"
  /\ saved' = NoSave
  /\ UNCHANGED <<file, pdfDoc, status, convertedImages, errorMsg, settings, parsing,
                 i, totalPages, runDoc, runSettings>>
\* await page.render(...).promise resolves: toDataURL, images.push,
\* setProgress, requestAnimationFrame requested
RenderResolve ==
  /\ pc = "render"
  /\ \E errW, errH \in FloatErrs(runDoc, runSettings) :
       LET canvas == Canvas(PlanViewport(runDoc, runSettings), errW, errH)
       IN images' = Append(images,
                           PageResult(i, DataUrl(canvas, runDoc, i, runSettings), canvas))
  /\ progress' = ProgressOf(i, totalPages)
  /\ progressLog' = Append(progressLog, ProgressOf(i, totalPages))
  /\ pc' = "raf"
  /\ saved' = NoSave
  /\ UNCHANGED <<file, pdfDoc, status, convertedImages, errorMsg, settings, parsing,
                 i, totalPages, runDoc, runSettings>>

RenderReject ==
  /\ pc = "render"
  /\ Catch("render failed")

\* render resolves but canvas.toDataURL throws
EncodeThrow ==
  /\ pc = "render"
  /\ Catch("encode failed")

RafResolve_noDone ==
  /\ pc = "raf"
  /\ i' = i + 1
  /\ IF i + 1 <= totalPages
     THEN /\ pc' = "getPage"
          /\ UNCHANGED <<status, convertedImages>>
     ELSE /\ convertedImages' = images
          /\ pc' = "finished"
          /\ UNCHANGED status
  /\ saved' = NoSave
  /\ UNCHANGED <<file, pdfDoc, progress, errorMsg, settings, parsing,
                 totalPages, images, runDoc, runSettings, progressLog>>
\* the animation frame fires: i++, loop test, next getPage or the end of the run
RafResolve ==
  /\ pc = "raf"
  /\ i' = i + 1
  /\ IF i + 1 <= totalPages
     THEN /\ pc' = "getPage"
          /\ UNCHANGED <<status, convertedImages>>
     ELSE Finish
  /\ saved' = NoSave
  /\ UNCHANGED <<file, pdfDoc, progress, errorMsg, settings, parsing,
                 totalPages, images, runDoc, runSettings, progressLog>>

\* ----------------------------------------------------------- downloadAll
\* window.saveAs(convertedImages[0].dataUrl, `page-1.${settings.format}`)
SaveSingle ==
  [via |-> "downloadAll", form |-> "single",
   name |-> PageFileName(1, settings.format),
   entries |-> {[name |-> PageFileName(1, settings.format),
                 data |-> convertedImages[1].dataUrl]}]

\* window.saveAs(content, `${file.name.replace('.pdf', '')}-images.zip`)
SaveArchive ==
  [via |-> "downloadAll", form |-> "archive",
   name |-> ArchiveName(file),
   entries |-> ZipEntries(convertedImages, settings.format)]

\* zip.generateAsync rejects: downloadAll has no try/catch, the promise it
\* returns is rejected and nobody handles it
SaveRejected ==
  [via |-> "downloadAll", form |-> "rejected", name |-> <<>>, entries |-> {}]

DownloadAll_failStatus(ok) ==
  /\ ResultsVisible
  /\ IF Len(convertedImages) = 0
     THEN saved' = NoSave /\ UNCHANGED <<status, errorMsg>>
     ELSE IF IsSingle(convertedImages)
          THEN saved' = SaveSingle /\ UNCHANGED <<status, errorMsg>>
          ELSE IF ok
               THEN saved' = SaveArchive /\ UNCHANGED <<status, errorMsg>>
               ELSE /\ saved' = SaveRejected
                    /\ status' = "error"
                    /\ errorMsg' = ConversionErrorMsg("archive failed")
  /\ UNCHANGED <<file, pdfDoc, progress, convertedImages, settings, parsing, runVars>>
\* downloadAll reads file, settings and convertedImages of the render it was
\* created in, and changes no React state: its await does not need a step of its own
DownloadAll(ok) ==
  /\ ResultsVisible
  /\ IF Len(convertedImages) = 0
     THEN saved' = NoSave
     ELSE IF IsSingle(convertedImages)
          THEN saved' = SaveSingle
          ELSE saved' = IF ok THEN SaveArchive ELSE SaveRejected
  /\ UNCHANGED <<uiVars, parsing, runVars>>

\* onClick={() => window.saveAs(img.dataUrl, `page-${img.page}.${settings.format}`)}
PageDownload(k) ==
  /\ ResultsVisible
  /\ k \in 1..Len(convertedImages)
  /\ saved' = [via |-> "pageButton", form |-> "single",
               name |-> PageFileName(convertedImages[k].page, settings.format),
               entries |-> {[name |-> PageFileName(convertedImages[k].page, settings.format),
                             data |-> convertedImages[k].dataUrl]}]
  /\ UNCHANGED <<uiVars, parsing, runVars>>

\* ----------------------------------------------------------------- Next
SelectFile == \E f \in Files : HandleFileChange(f)
ParseDone == \E f \in PdfFiles : ParseResolve(f)
ParseFail == \E f \in PdfFiles : ParseReject(f)
ChangeFormat == \E fmt \in Formats : SetFormat(fmt)
ChangeQuality == \E q \in Qualities : SetQuality(q)
ChangeScale == \E sc \in Scales : SetScale(sc)
ChangeMaxPageWidth == \E w \in WidthLimits : SetMaxPageWidth(w)
ClickDownloadAll == \E ok \in BOOLEAN : DownloadAll(ok)
ClickPageDownload == \E k \in 1..MaxPages : PageDownload(k)

\* what the caller can do to restart: reset, remove file, select file, start
CallerRestartStep == ResetButton \/ RemoveFile \/ SelectFile \/ StartConversion

RunStep == GetPageResolve \/ GetPageReject \/ RenderResolve \/ RenderReject
             \/ EncodeThrow \/ RafResolve

Next ==
  \/ SelectFile
  \/ ParseDone
  \/ ParseFail
  \/ RemoveFile
  \/ ResetButton
  \/ ChangeFormat
  \/ StartConversion
  \/ GetPageResolve
  \/ GetPageReject
  \/ RenderResolve
  \/ RenderReject
  \/ EncodeThrow
  \/ RafResolve
  \/ ClickDownloadAll
  \/ ClickPageDownload

Spec == Init /\ [][Next]_vars

\* every promise the run awaits settles: the run's next step is eventually taken
FairSpec == Spec /\ WF_vars(RunStep)

\* ------------------------------------------------- further specifications
\* In Spec the quality, scale and width-limit controls are not touched: the
\* three fields keep their initial values.  SettingsSpec exercises all four
\* controls around the runs of one loaded two-page document.
InitSettings ==
  /\ file = CHOOSE f \in GoodFiles : f.numPages = 2
  /\ pdfDoc = DocOf(file)
  /\ status = "idle"
  /\ progress = 0
  /\ convertedImages = <<>>
  /\ errorMsg = NoError
  /\ settings = DefaultSettings
  /\ parsing = [f \in PdfFiles |-> 0]
  /\ pc = "none"
  /\ i = 0
  /\ totalPages = 0
  /\ images = <<>>
  /\ runDoc = NoDoc
  /\ runSettings = DefaultSettings
  /\ progressLog = <<>>
  /\ saved = NoSave

NextSettings ==
  \/ ChangeFormat
  \/ ChangeQuality
  \/ ChangeScale
  \/ ChangeMaxPageWidth
  \/ StartConversion
  \/ GetPageResolve
  \/ RenderResolve
  \/ RafResolve
  \/ ResetButton

SettingsSpec == InitSettings /\ [][NextSettings]_vars

\* PlanSpec: the viewport computation of startConversion on one-page
\* documents of every intrinsic size up to MaxDim, with every offered scale
\* and every width limit up to MaxLimit set before the file was selected.
PlanFiles == {[name |-> <<"plan", ".pdf">>, type |-> PdfType, numPages |-> 1,
               pageWidth |-> w, pageHeight |-> h] : w, h \in 1..MaxDim}
PlanSettings == {[DefaultSettings EXCEPT !.scale = sc, !.maxPageWidth = m] :
                   sc \in Scales, m \in 0..MaxLimit}

InitPlan ==
  /\ file \in PlanFiles
  /\ pdfDoc = DocOf(file)
  /\ status = "idle"
  /\ progress = 0
  /\ convertedImages = <<>>
  /\ errorMsg = NoError
  /\ settings \in PlanSettings
  /\ parsing = [f \in PdfFiles |-> 0]
  /\ pc = "none"
  /\ i = 0
  /\ totalPages = 0
  /\ images = <<>>
  /\ runDoc = NoDoc
  /\ runSettings = DefaultSettings
  /\ progressLog = <<>>
  /\ saved = NoSave

NextPlan ==
  \/ StartConversion
  \/ GetPageResolve
  \/ RenderResolve
  \/ RafResolve

PlanSpec == InitPlan /\ [][NextPlan]_vars

\* NameSpec: conversion and download of two-page documents whose file names
\* are made of up to MaxNameLen pieces and end in an extension piece.
NamePieces == {"scan", ".pdf", ".PDF"}
ExtensionPieces == {".pdf", ".PDF"}
FileNames == {nm \in UNION {[1..n -> NamePieces] : n \in 1..MaxNameLen} :
                nm[Len(nm)] \in ExtensionPieces}
NamedFiles == {[name |-> nm, type |-> PdfType, numPages |-> 2,
                pageWidth |-> 612, pageHeight |-> 792] : nm \in FileNames}

InitName ==
  /\ file \in NamedFiles
  /\ pdfDoc = DocOf(file)
  /\ status = "idle"
  /\ progress = 0
  /\ convertedImages = <<>>
  /\ errorMsg = NoError
  /\ settings = DefaultSettings
  /\ parsing = [f \in PdfFiles |-> 0]
  /\ pc = "none"
  /\ i = 0
  /\ totalPages = 0
  /\ images = <<>>
  /\ runDoc = NoDoc
  /\ runSettings = DefaultSettings
  /\ progressLog = <<>>
  /\ saved = NoSave

NextName ==
  \/ StartConversion
  \/ GetPageResolve
  \/ RenderResolve
  \/ RafResolve
  \/ ClickDownloadAll

NameSpec == InitName /\ [][NextName]_vars

TypeOK ==
  /\ file \in Files \cup {NoFile} \cup PlanFiles \cup NamedFiles
  /\ status \in {"idle", "processing", "done", "error"}
  /\ progress \in 0..100
  /\ pc \in {"none", "getPage", "render", "raf", "finished"}
  /\ settings.format \in Formats
  /\ settings.scale \in Scales

\* ===================================================================
\* Properties
\* ===================================================================

\* v is x = num/den rounded to the nearest integer, halves up: v - 1/2 <= x < v + 1/2
IsNearest(v, num, den) == 2 * den * v <= 2 * num + den /\ 2 * num + den < 2 * den * (v + 1)

\* the run has ended and every page was converted
RunSucceeded == pc = "finished" /\ Len(images) = totalPages

\* seq holds one result for each of the pages 1..n, in that order
PagesInOrder(seq, n) == Len(seq) = n /\ \A j \in 1..n : seq[j].page = j

\* C1: a run of a document of N >= 1 pages in which no page fails ends with
\* status = done and exactly N results, for the pages 1, 2, ..., N in that
\* order, and the progress values it set are round(1/N*100), ..., 100 in that order.
C1_SuccessfulRun ==
  /\ [](RunSucceeded =>
          /\ totalPages = runDoc.numPages
          /\ totalPages >= 1
          /\ status \in {"done", "idle"}
          /\ status = "done" => PagesInOrder(convertedImages, totalPages)
          /\ Len(progressLog) = totalPages
          /\ \A j \in 1..totalPages : IsNearest(progressLog[j], j * 100, totalPages)
          /\ progressLog[totalPages] = 100)
  /\ [][(pc # "finished" /\ pc' = "finished" /\ Len(images') = totalPages')
          => (status' = "done" /\ progress' = 100
              /\ PagesInOrder(convertedImages', totalPages'))]_vars

C1_Witness ==
  status = "done" /\ totalPages = 3 /\ Len(convertedImages) = 3 /\ progressLog = <<33, 67, 100>>

PageFails == GetPageReject \/ RenderReject \/ EncodeThrow

C3_HundredOnlyWhenDone == progress = 100 => status = "done"

\* C3 amended: status = done implies progress = 100, and progress = 100
\* implies that the latest run recorded the progress of a page j with
\* round(j/N*100) = 100; status is then not necessarily done (processing
\* until the done transition, idle after a reset).
C3_DoneImpliesHundred ==
  /\ status = "done" => progress = 100
  /\ progress = 100 =>
       /\ Len(images) >= 1
       /\ IsNearest(100, Len(images) * 100, totalPages)

C3_Witness == progress = 100 /\ status = "processing" /\ pc = "raf" /\ i = totalPages

\* C4: every change of status is idle -> processing (startConversion),
\* processing -> done, processing -> error, or a change to idle made by the
\* reset button or by selecting a file.
C4_StatusTransitions ==
  [][status' # status =>
       \/ status = "idle" /\ status' = "processing" /\ StartConversion
       \/ status = "processing" /\ status' = "done"
       \/ status = "processing" /\ status' = "error"
       \/ status' = "idle" /\ (ResetButton \/ SelectFile)]_vars

C4_Witness ==
  status = "processing" /\ pc = "getPage" /\ i = 1 /\ Len(progressLog) = 0 /\ settings.format = "jpeg"

\* C5: from every state with status = error the caller can restart: one of
\* reset, remove file, select file, start is available to begin the way back to idle.
C5_ErrorCanRestart == status = "error" => ENABLED CallerRestartStep

\* C6: whenever convertedImages is non-empty, status = done and it holds
\* exactly one result for each page 1..N of the converted document.
C6_OnlyCompleteSets ==
  convertedImages # <<>> =>
    /\ status = "done"
    /\ totalPages = runDoc.numPages
    /\ PagesInOrder(convertedImages, totalPages)
    /\ \A j \in 1..Len(convertedImages) : convertedImages[j].dataUrl.src = runDoc.src
                                         /\ convertedImages[j].dataUrl.page = j

C6_Witness == Len(convertedImages) = 2 /\ status = "done" /\ file.name # runDoc.src

\* C7: every started run eventually leaves processing and reaches done or
\* error, when every promise it awaits settles.
C7_RunTerminates == (status = "processing") ~> (status \in {"done", "error"})

C7_Witness == status = "done" /\ pc = "finished" /\ totalPages = 2 /\ settings # runSettings

\* the string pieces of a message
Pieces(msg) == {msg[j] : j \in 1..Len(msg)}

\* C8: after a page failure the error shown names the failing page index and
\* the cause, and after a failed archive construction an error message is set.
C8_FailuresSurfaced ==
  /\ (status = "error" /\ errorMsg # ParseFailedMsg) =>
        /\ ToString(i) \in Pieces(errorMsg)
        /\ Pieces(errorMsg) \cap Causes # {}
  /\ saved.form = "rejected" => errorMsg # NoError

\* C9 as stated: a delivery is a single file if and only if exactly one
\* result exists, named page-<pageIndex>.<ext>.
C9_SingleIffOne ==
  [][saved' # NoSave =>
       /\ saved'.form = "single" <=> Len(convertedImages) = 1
       /\ saved'.form = "single" =>
            saved'.name = PageFileName(convertedImages[1].page, settings.format)]_vars

\* C9 amended: downloadAll delivers a single file if and only if exactly one
\* result exists, named page-<pageIndex>.<ext> with that result's page
\* index, and uses the archive form whenever two or more exist; the per-page
\* button delivers the single file page-<pageIndex>.<ext> of its result
\* however many results exist.
C9_DownloadAllSingleIffOne ==
  [][saved' # NoSave =>
       /\ saved'.via \in {"downloadAll", "pageButton"}
       /\ saved'.via = "downloadAll" =>
            /\ saved'.form = "single" <=> Len(convertedImages) = 1
            /\ Len(convertedImages) >= 2 => saved'.form \in {"archive", "rejected"}
            /\ saved'.form = "single" =>
                 saved'.entries = {[name |-> PageFileName(convertedImages[1].page, settings.format),
                                    data |-> convertedImages[1].dataUrl]}
       /\ saved'.via = "pageButton" =>
            /\ saved'.form = "single"
            /\ \E k \in 1..Len(convertedImages) :
                 saved'.entries = {[name |-> PageFileName(convertedImages[k].page, settings.format),
                                    data |-> convertedImages[k].dataUrl]}
       /\ saved'.form = "single" => \A e \in saved'.entries : saved'.name = e.name]_vars

C9_Witness ==
  saved.via = "downloadAll" /\ saved.form = "single" /\ Len(convertedImages) = 1

\* C10: the entry names of an archive built by downloadAll are pairwise
\* distinct and are exactly images/page-<i>.<ext> for the page index i of
\* each result.
C10_ArchiveEntries ==
  [][saved'.form = "archive" =>
       LET names == {e.name : e \in saved'.entries}
           n == Len(convertedImages)
       IN /\ Cardinality(saved'.entries) = n
          /\ Cardinality(names) = n
          /\ names = {<<"images/", "page-", ToString(convertedImages[k].page), ".",
                        settings.format>> : k \in 1..n}
          /\ \A k \in 1..n :
               [name |-> <<"images/", "page-", ToString(k), ".", settings.format>>,
                data |-> convertedImages[k].dataUrl] \in saved'.entries]_vars

C10_Witness == saved.form = "archive" /\ Cardinality(saved.entries) = 3

\* the name with its trailing extension removed, whatever its letter case
StripExtension(nm) ==
  IF nm # <<>> /\ nm[Len(nm)] \in ExtensionPieces THEN SubSeq(nm, 1, Len(nm) - 1) ELSE nm

\* C11: the archive is named <baseName>-images.zip, baseName being the
\* document's name with only its trailing extension removed, in any letter case.
C11_ArchiveBaseName ==
  [][saved'.form = "archive" =>
       saved'.name = StripExtension(file.name) \o <<"-images.zip">>]_vars

\* C12: when intrinsicWidth * baseScale > maxWidthPixels > 0, the width of
\* the surface a page is rasterized into, recorded in its PageResult, does
\* not exceed maxWidthPixels.
C12_WidthWithinLimit ==
  \A j \in 1..Len(images) :
    /\ images[j].width = images[j].dataUrl.width
    /\ (/\ runSettings.maxPageWidth > 0
        /\ runDoc.pageWidth * runSettings.scale.n > runSettings.maxPageWidth * runSettings.scale.d)
         => (images[j].width <= runSettings.maxPageWidth /\ images[j].width >= 0)

C12_Witness ==
  /\ Len(images) = 1
  /\ runDoc.pageWidth = 4
  /\ runSettings.scale = Frac(3, 2)
  /\ runSettings.maxPageWidth = 3
  /\ images[1].width = 2

\* the planner of the specification: rounding to the nearest integer
ReferencePlan(w, h, baseScale, maxWidth) ==
  LET w0 == FracMul(Frac(w, 1), baseScale)
      h0 == FracMul(Frac(h, 1), baseScale)
      ratio == FracDiv(Frac(maxWidth, 1), w0)
      near(x) == (2 * x.n + x.d) \div (2 * x.d)
  IN IF maxWidth > 0 /\ FracGt(w0, Frac(maxWidth, 1))
     THEN [effectiveScale |-> FracMul(baseScale, ratio),
           width |-> near(FracMul(w0, ratio)), height |-> near(FracMul(h0, ratio))]
     ELSE [effectiveScale |-> baseScale, width |-> near(w0), height |-> near(h0)]

\* C13: the surface dimensions and the effective scale computed in
\* startConversion equal those of the reference planner (rounding to nearest).
C13_MatchesReferencePlan ==
  \A j \in 1..Len(images) :
    LET ref == ReferencePlan(runDoc.pageWidth, runDoc.pageHeight,
                             runSettings.scale, runSettings.maxPageWidth)
    IN /\ images[j].width = ref.width
       /\ images[j].height = ref.height
       /\ FracEq(images[j].dataUrl.scale, ref.effectiveScale)

\* a call of startConversion has not returned yet
InFlight == pc \in {"getPage", "render", "raf"}

\* C14: at most one page conversion is in progress: a run starts only when
\* no run is in flight, and page i+1 is not requested or rendered before the
\* result of page i is appended and its progress recorded.
C14_OneConversionAtATime ==
  /\ [](InFlight => (status = "processing" /\ ~StartVisible))
  /\ [][(StartConversion /\ pc' = "getPage") => ~InFlight]_vars
  /\ [](pc \in {"getPage", "render"} =>
          /\ PagesInOrder(images, i - 1)
          /\ Len(progressLog) = i - 1
          /\ (i > 1 => progress = progressLog[i - 1]))
  /\ [](pc = "raf" => PagesInOrder(images, i) /\ Len(progressLog) = i)

C14_Witness ==
  pc = "render" /\ i = 2 /\ Len(images) = 1 /\ status = "processing" /\ parsing # [f \in PdfFiles |-> 0]

\* the effective scale that the settings s give a page of width w
EffectiveScale(w, s) ==
  IF s.maxPageWidth > 0 /\ w * s.scale.n > s.maxPageWidth * s.scale.d
  THEN Frac(s.maxPageWidth, w)
  ELSE s.scale

\* C15: every page of a run is planned and encoded with the format, quality,
\* scale and maxPageWidth in effect when startConversion was invoked, whatever
\* the user changes while status = processing.
C15_SettingsFixedPerRun ==
  /\ [][(status = "idle" /\ status' = "processing") => runSettings' = settings]_vars
  /\ [][status = "processing" => runSettings' = runSettings]_vars
  /\ [](\A j \in 1..Len(images) :
          /\ images[j].dataUrl.mime = (IF runSettings.format = "png" THEN "image/png"
                                       ELSE "image/jpeg")
          /\ images[j].dataUrl.quality = runSettings.quality
          /\ FracEq(images[j].dataUrl.scale, EffectiveScale(runDoc.pageWidth, runSettings))
          /\ images[j].width <= (images[j].dataUrl.scale.n * runDoc.pageWidth)
                                  \div images[j].dataUrl.scale.d)

C15_Witness ==
  /\ status = "processing"
  /\ pc = "raf"
  /\ i = 2
  /\ settings.format # runSettings.format
  /\ settings.quality # runSettings.quality
  /\ settings.scale # runSettings.scale
  /\ settings.maxPageWidth # runSettings.maxPageWidth

C17_ProgressMonotone ==
  /\ [](progress \in 0..100)
  /\ [][status = "processing" => progress' >= progress]_vars
  /\ [][(status = "processing" /\ progress' # progress) =>
          /\ Len(progressLog') = i
          /\ Len(progressLog) = i - 1
          /\ PagesInOrder(images', i)
          /\ progress' = progressLog'[i]]_vars

C17_Witness == status = "processing" /\ progress = 67 /\ Len(progressLog) = 2 /\ pc = "getPage"

\* C18: a failed archive construction leaves status, convertedImages and
\* progress unchanged (done, all N results), so that the packaging and every
\* per-page download can be tried again.
C18_PackagingFailureFrame ==
  /\ [][saved'.form = "rejected" =>
          /\ status = "done"
          /\ UNCHANGED <<status, convertedImages, progress>>
          /\ PagesInOrder(convertedImages', totalPages)]_vars
  /\ [](saved.form = "rejected" =>
          /\ ResultsVisible
          /\ Len(convertedImages) >= 2
          /\ progress = 100)

C18_Witness == saved.form = "rejected" /\ Len(convertedImages) = 3 /\ status = "done"

SelectNonPdf == \E f \in Files : f.type # PdfType /\ HandleFileChange(f)

\* C19: selecting a file that is not a PDF only sets the error message: the
\* selected file, the document, status, progress and results are unchanged
\* and no run is started.
C19_NonPdfRejected ==
  [][SelectNonPdf =>
       /\ errorMsg' = InvalidFileMsg
       /\ UNCHANGED <<file, pdfDoc, status, progress, convertedImages, settings,
                      parsing, runVars>>]_vars

C19_Witness == errorMsg = InvalidFileMsg /\ file = NoFile /\ pdfDoc # NoDoc /\ status = "idle"

\* C20: a run converts the document parsed from the currently selected file.
C20_RunUsesSelectedFile == InFlight => runDoc = DocOf(file)

\* the format a data URL was encoded with, read back from its MIME type
\* (canvas.toDataURL(mimeType, quality))
EncodedFormat(url) == IF url.mime = "image/png" THEN "png" ELSE "jpeg"

\* the extension of a delivered file name: what follows its last "."
ExtensionOf(name) == name[Len(name)]

\* C21: every file delivered (single download, per-page download, archive
\* entry) has as its extension the format its page was encoded with during the
\* run, also when the format setting was changed after the run ended.
C21_ExtensionIsEncodedFormat ==
  (saved # NoSave /\ saved.form # "rejected")
    => \A e \in saved.entries : ExtensionOf(e.name) = EncodedFormat(e.data)
====
